---- MODULE Spec2Model ----
(***************************************************************************)
(* The multi-model streaming relay of src/app/api/chat/route.ts (POST):    *)
(* the Request Dispatcher (the for loop over `models`) and the Stream      *)
(* Transcoder (the for-await loop over response.body, the references       *)
(* footer and the close of the output stream); and the chat page of        *)
(* src/app/page.tsx with the input box of src/components/ChatInterface.tsx *)
(* that calls the relay.                                                   *)
(***************************************************************************)
EXTENDS Integers, Sequences, FiniteSets, TLC

VARIABLES
    pc,                \* position of POST / of the stream's start(controller)
    httpResponse,      \* what POST returned: "none", "json500" or "stream"
    idx,               \* 1-based position of the for loop in `models`
    usedModel,         \* let usedModel
    response,          \* let response (undefined until a fetch resolves)
    lastError,         \* let lastError
    errorLog,          \* let errorLog: string[]
    buffer,            \* let buffer (decoded characters held back)
    capturedMetadata,  \* let capturedMetadata
    out,               \* the chunks accepted by controller.enqueue, in order
    outState,          \* the ReadableStream: "none", "readable", "closed", "cancelled"
    closeCalls,        \* number of controller.close() calls made
    requests,          \* the upstream requests issued so far (model of each)
    body,              \* bytes of the winning response's body (upstream side)
    pos,               \* number of bytes of body already delivered
    decoded,           \* concatenation of chunk.toString() over the chunks read
    reads,             \* number of chunks read from response.body
    input,             \* the request and the environment POST runs with
    history,           \* page.tsx:11  useState<ChatSession[]>
    currentChatId,     \* page.tsx:12  useState<string | null>
    messages,          \* page.tsx:13  useState<ChatMessage[]>
    isLoading,         \* page.tsx:14  useState(false)
    chatInput,         \* ChatInterface.tsx:21  const [input, setInput]
    localStorage,      \* the 'chatHistory' item of localStorage
    calls,             \* the handleSendMessage / handleRegenerate calls awaiting
    uuids,             \* number of ids uuidv4() has produced
    answered,          \* number of requests to /api/chat that have settled
    deleted            \* ids of the sessions deleteChat has removed

relayVars == <<pc, httpResponse, idx, usedModel, response, lastError,
               errorLog, buffer, capturedMetadata, out, outState, closeCalls,
               requests, body, pos, decoded, reads, input>>

pageVars == <<history, currentChatId, messages, isLoading, chatInput,
              localStorage, calls, uuids, answered, deleted>>

\* currentChatId === null
Null == 0

vars == <<pc, httpResponse, idx, usedModel, response, lastError, errorLog,
          buffer, capturedMetadata, out, outState, closeCalls, requests,
          body, pos, decoded, reads, input, history, currentChatId,
          messages, isLoading, chatInput, localStorage, calls, uuids, answered,
          deleted>>

(***************************************************************************)
(* Bounds of the environment.                                              *)
(***************************************************************************)
MaxLines == 2        \* complete lines in an upstream body (streaming runs)
MaxLinesD == 1       \* complete lines in an upstream body (dispatch runs)
MaxFailS == 1        \* failing attempts before the winner (streaming runs)

(***************************************************************************)
(* route.ts:41  the fixed, ordered candidate list.                         *)
(***************************************************************************)
models == <<"gemini-2.0-flash", "gemini-2.0-flash-thinking-exp-01-21",
            "gemini-1.5-pro", "gemini-1.5-pro-002", "gemini-1.5-pro-latest">>

\* models.indexOf(model): the first position holding the value
IndexOf(m) == CHOOSE i \in 1..Len(models) :
                 /\ models[i] = m
                 /\ \A j \in 1..(i - 1) : models[j] # m

\* the statuses the upstream is let to answer with, besides success
Statuses == {429, 404, 503, 500}
ErrTexts == {"quota"}                 \* bodies of failure responses
NetMsgs == {"ECONNRESET", ""}         \* messages of transport errors

\* route.ts:119
Retryable(status) == status = 429 \/ status = 404 \/ status = 503

(***************************************************************************)
(* Errors and messages.  A message is a head text followed by the entries  *)
(* of an error log joined with ' | ' (empty for a transport error).        *)
(***************************************************************************)
NullError == [isNull |-> TRUE, head |-> "", log |-> <<>>]
NetError(msg) == [isNull |-> FALSE, head |-> msg, log |-> <<>>]

\* route.ts:115  `Model ${model}: ${response.status} - ${errorText}`
CurrentError(model, status, errorText) ==
    [model |-> model, status |-> status, text |-> errorText]

\* route.ts:117  new Error(`Gemini API Error: ... ${errorLog.join(' | ')}`)
AllFailedErrorLast(log) ==
    [isNull |-> FALSE,
     head |-> "Gemini API Error: All models failed. Details: ",
     log |-> <<log[Len(log)]>>]
AllFailedError(log) ==
    [isNull |-> FALSE,
     head |-> "Gemini API Error: All models failed. Details: ",
     log |-> log]

\* route.ts:133  lastError?.message || 'All models failed.'
ErrorMessageNoFallback(err) == [head |-> err.head, log |-> err.log]
ErrorMessage(err) ==
    IF err.isNull \/ (err.head = "" /\ err.log = <<>>)
    THEN [head |-> "All models failed.", log |-> <<>>]
    ELSE [head |-> err.head, log |-> err.log]

NoResponse == [defined |-> FALSE, ok |-> FALSE, status |-> 0]

(***************************************************************************)
(* Output chunks.                                                          *)
(***************************************************************************)
\* route.ts:134  `❌ Error: ${errorMessage}`
FailChunk(msg) == [kind |-> "fail", msg |-> msg]
\* route.ts:202  `\n\n❌ Internal Error: ${error.message}`
InternalChunk(msg) == [kind |-> "internal", msg |-> msg]
\* route.ts:164
TextChunk(chars) == [kind |-> "text", chars |-> chars]

\* route.ts:193  `\n\n---\n${footerText}`
FooterChunk(footer) == [kind |-> "footer", footer |-> footer]

(***************************************************************************)
(* The upstream body.  A byte is one of the tokens below; every token      *)
(* stands for a run of ASCII bytes, except "lead" and "cont", the two      *)
(* bytes of one UTF-8 encoded character "E2".                              *)
(*   "nl"    the newline                "sp"    a blank / carriage return   *)
(*   "data"  the prefix 'data: '        "done"  the sentinel '[DONE]'       *)
(*   "{T"    {"candidates":[{"content":{"parts":[{"text":"                 *)
(*   "T}"    "}]}}]}                     "T}G"  "}]},"groundingMetadata":gA}]} *)
(*   "gA", "gB", "gE"   {"candidates":[{"groundingMetadata":...}]}          *)
(*   "junk"  text that is not JSON                                          *)
(***************************************************************************)
TextLine(chars) == <<"data", "{T">> \o chars \o <<"T}", "nl">>

Catalogue == {
    TextLine(<<"a">>),
    TextLine(<<"lead", "cont">>),
    <<"data", "gA", "nl">>,
    <<"data", "gB", "nl">>,
    <<"data", "gE", "nl">>,
    <<"data", "junk", "nl">>,
    <<"sp", "data", "{T", "b", "T}G", "sp", "nl">>,
    <<"data", "done", "nl">>,
    <<"nl">> }

CatalogueD == { TextLine(<<"a">>), <<"data", "junk", "nl">> }

\* what may follow the last newline of a body
Tails == { <<>>, <<"data", "{T", "b", "T}">>, <<"data", "gE">> }

RECURSIVE Concats(_, _)
Concats(C, n) ==
    IF n = 0 THEN {<<>>}
    ELSE LET S == Concats(C, n - 1) IN S \cup {b \o l : b \in S, l \in C}

Bodies == {b \o t : b \in Concats(Catalogue, MaxLines), t \in Tails}
SmallBodies == Concats(CatalogueD, MaxLinesD)

(***************************************************************************)
(* route.ts:144  chunk.toString(): UTF-8 decoding of one chunk on its own. *)
(* A lead byte followed by its continuation byte is the character "E2";    *)
(* a lead byte without it, or a continuation byte without its lead byte,   *)
(* decodes to the replacement character "FFFD".                            *)
(***************************************************************************)
ToStrBytewise(bytes) ==
    [i \in 1..Len(bytes) |->
        IF bytes[i] \in {"lead", "cont"} THEN "FFFD" ELSE bytes[i]]
RECURSIVE ToStr(_)
ToStr(bytes) ==
    IF bytes = <<>> THEN <<>>
    ELSE IF Head(bytes) = "lead"
         THEN IF Len(bytes) >= 2 /\ bytes[2] = "cont"
              THEN <<"E2">> \o ToStr(SubSeq(bytes, 3, Len(bytes)))
              ELSE <<"FFFD">> \o ToStr(Tail(bytes))
    ELSE IF Head(bytes) = "cont"
         THEN <<"FFFD">> \o ToStr(Tail(bytes))
    ELSE <<Head(bytes)>> \o ToStr(Tail(bytes))

\* route.ts:147  buffer.split('\n')
RECURSIVE Split(_)
Split(s) ==
    IF \A i \in 1..Len(s) : s[i] # "nl" THEN <<s>>
    ELSE LET i == CHOOSE k \in 1..Len(s) :
                     s[k] = "nl" /\ \A j \in 1..(k - 1) : s[j] # "nl"
         IN <<SubSeq(s, 1, i - 1)>> \o Split(SubSeq(s, i + 1, Len(s)))

\* String.prototype.trim
RECURSIVE TrimLeft(_)
TrimLeft(s) == IF s # <<>> /\ Head(s) = "sp" THEN TrimLeft(Tail(s)) ELSE s
RECURSIVE TrimRight(_)
TrimRight(s) ==
    IF s # <<>> /\ s[Len(s)] = "sp" THEN TrimRight(SubSeq(s, 1, Len(s) - 1))
    ELSE s
Trim(s) == TrimRight(TrimLeft(s))

(***************************************************************************)
(* Grounding metadata values.                                              *)
(***************************************************************************)
Web(title, uri) == [web |-> TRUE, title |-> title, uri |-> uri]
NoWeb == [web |-> FALSE, title |-> "", uri |-> ""]

NoMeta == [isNull |-> TRUE, webSearchQueries |-> <<>>, groundingChunks |-> <<>>]
MetaOf(token) ==
    CASE token = "gA" ->
           [isNull |-> FALSE, webSearchQueries |-> <<"q1">>,
            groundingChunks |-> <<Web("t1", "u1")>>]
      [] token = "gB" ->
           [isNull |-> FALSE, webSearchQueries |-> <<>>,
            groundingChunks |-> <<NoWeb, Web("t2", "u2")>>]
      [] OTHER ->
           [isNull |-> FALSE, webSearchQueries |-> <<>>,
            groundingChunks |-> <<>>]

TextChars == {"a", "b", "sp", "E2", "FFFD"}

(***************************************************************************)
(* route.ts:156-157  JSON.parse(jsonStr) and the read of                   *)
(* data.candidates?.[0]?.content?.parts?.[0]?.text and of                  *)
(* data.candidates?.[0]?.groundingMetadata.  ok = FALSE: JSON.parse threw. *)
(***************************************************************************)
ParseFailed == [ok |-> FALSE, text |-> <<>>, meta |-> "none"]
JsonParse(jsonStr) ==
    LET s == Trim(jsonStr) IN
    IF Len(s) = 1 /\ s[1] \in {"gA", "gB", "gE"}
         THEN [ok |-> TRUE, text |-> <<>>, meta |-> s[1]]
    ELSE IF /\ Len(s) >= 2
            /\ s[1] = "{T"
            /\ s[Len(s)] \in {"T}", "T}G"}
            /\ \A i \in 2..(Len(s) - 1) : s[i] \in TextChars
         THEN [ok |-> TRUE, text |-> SubSeq(s, 2, Len(s) - 1),
               meta |-> IF s[Len(s)] = "T}G" THEN "gA" ELSE "none"]
    ELSE ParseFailed

(***************************************************************************)
(* route.ts:150-170  the handling of the complete lines of one read.       *)
(* A result is the captured metadata and the output after the line(s);     *)
(* stop = TRUE says that the remaining lines of the read are not handled.  *)
(***************************************************************************)
LineResult(meta, o, stop) == [meta |-> meta, out |-> o, stop |-> stop]

\* route.ts:159-161  capture, overwriting what was captured before
CaptureFirst(meta, parsed) ==
    IF parsed.meta # "none" /\ meta.isNull THEN MetaOf(parsed.meta) ELSE meta
Capture(meta, parsed) ==
    IF parsed.meta # "none" THEN MetaOf(parsed.meta) ELSE meta

\* route.ts:163-165  if (text) controller.enqueue(...).  On a stream that is
\* not readable enqueue throws inside the try and the catch of line 166
\* swallows it.
EmitTextNever(o, st, parsed) == o
EmitText(o, st, parsed) ==
    IF parsed.text # <<>> /\ st = "readable"
    THEN Append(o, TextChunk(parsed.text))
    ELSE o

\* route.ts:166-168  catch (e) { /* ignore */ }: the line is dropped and the
\* for loop over the lines goes on
OnParseErrorStop(meta, o) == LineResult(meta, o, TRUE)
OnParseError(meta, o) == LineResult(meta, o, FALSE)

\* route.ts:151-169  one line
ProcessLine(line, meta, o, st) ==
    LET t == Trim(line) IN
    IF ~(Len(t) >= 2 /\ t[1] = "data") THEN LineResult(meta, o, FALSE)
    ELSE LET jsonStr == Tail(t) IN
         IF jsonStr = <<"done">> THEN LineResult(meta, o, FALSE)
         ELSE LET parsed == JsonParse(jsonStr) IN
              IF ~parsed.ok THEN OnParseError(meta, o)
              ELSE LineResult(Capture(meta, parsed),
                              EmitText(o, st, parsed), FALSE)

\* route.ts:150  for (const line of lines)
RECURSIVE ProcessLines(_, _, _, _)
ProcessLines(lines, meta, o, st) ==
    IF lines = <<>> THEN LineResult(meta, o, FALSE)
    ELSE LET r == ProcessLine(Head(lines), meta, o, st) IN
         IF r.stop THEN r
         ELSE ProcessLines(Tail(lines), r.meta, r.out, st)

\* route.ts:145-148  buffer += chunkStr; lines = buffer.split('\n');
\* buffer = lines.pop() || ''
CompleteLinesAll(buf) == Split(buf)
CompleteLines(buf) == LET ls == Split(buf) IN SubSeq(ls, 1, Len(ls) - 1)
Remainder(buf) == LET ls == Split(buf) IN ls[Len(ls)]

(***************************************************************************)
(* route.ts:174-195  the references footer.                                *)
(***************************************************************************)
\* route.ts:185-189  chunks.forEach((c, index) => if (c.web) ...)
RECURSIVE RefsFrom(_, _)
RefsFrom(chunks, index) ==
    IF chunks = <<>> THEN <<>>
    ELSE (IF Head(chunks).web
          THEN <<[n |-> index + 1, title |-> Head(chunks).title,
                  uri |-> Head(chunks).uri]>>
          ELSE <<>>) \o RefsFrom(Tail(chunks), index + 1)

\* footerText: the queries block (heading and one bullet per query) when
\* queries.length > 0, then the sources block (heading and one entry per
\* chunk that has a web part) when chunks.length > 0
FooterText(meta) ==
    [queriesBlock |-> Len(meta.webSearchQueries) > 0,
     bullets |-> meta.webSearchQueries,
     sourcesBlock |-> Len(meta.groundingChunks) > 0,
     refs |-> RefsFrom(meta.groundingChunks, 0)]

\* route.ts:174 and 192  if (capturedMetadata) ... if (footerText)
FooterNeededAlways(meta) == TRUE
FooterNeededQueriesOnly(meta) ==
    ~meta.isNull /\ FooterText(meta).queriesBlock
FooterNeeded(meta) ==
    /\ ~meta.isNull
    /\ (FooterText(meta).queriesBlock \/ FooterText(meta).sourcesBlock)

(***************************************************************************)
(* Initial state: a request has arrived, POST has not run yet.             *)
(***************************************************************************)
NoHttpResponse == [kind |-> "none", status |-> 0, error |-> ""]
\* route.ts:17-20 and 212-215  NextResponse.json({ error }, { status: 500 })
JsonError(error) == [kind |-> "json", status |-> 500, error |-> error]
\* route.ts:208  new NextResponse(stream)
StreamResponse == [kind |-> "stream", status |-> 200, error |-> ""]

\* route.ts:7-8 and 24  the three things POST needs before the stream: a
\* body that req.json() can parse, process.env.GEMINI_API_KEY, and a
\* history that has a map method
Inputs == [validJson : BOOLEAN, hasKey : BOOLEAN, hasHistory : BOOLEAN]

Request(model) == [model |-> model, result |-> "pending", status |-> 0, msg |-> ""]

Init ==
    /\ pc = "start"
    /\ httpResponse = NoHttpResponse
    /\ idx = 1
    /\ usedModel = ""
    /\ response = NoResponse
    /\ lastError = NullError
    /\ errorLog = <<>>
    /\ buffer = <<>>
    /\ capturedMetadata = NoMeta
    /\ out = <<>>
    /\ outState = "none"
    /\ closeCalls = 0
    /\ requests = <<>>
    /\ body = <<>>
    /\ pos = 0
    /\ decoded = <<>>
    /\ reads = 0
    /\ input \in Inputs
    /\ history = <<>>
    /\ currentChatId = Null
    /\ messages = <<>>
    /\ isLoading = FALSE
    /\ chatInput = <<>>
    /\ localStorage = <<>>
    /\ calls = {}
    /\ uuids = 0
    /\ answered = 0
    /\ deleted = {}

(***************************************************************************)
(* route.ts:5-46 and 208-216  POST up to the creation of the stream.       *)
(***************************************************************************)
\* the error that ends POST before the stream is created, "" if there is
\* none: req.json() rejects (7), the key is missing (15-21), history.map
\* throws (24); the first and the last reach the catch of line 210
PreStreamErrorNoKeyCheck(in) ==
    IF ~in.validJson THEN "Unexpected token in JSON"
    ELSE IF ~in.hasHistory THEN "Cannot read properties of undefined"
    ELSE ""
PreStreamErrorKeyOnly(in) ==
    IF ~in.hasKey THEN "GEMINI_API_KEY is not defined in environment variables"
    ELSE ""
PreStreamError(in) ==
    IF ~in.validJson THEN "Unexpected token in JSON"
    ELSE IF ~in.hasKey
         THEN "GEMINI_API_KEY is not defined in environment variables"
    ELSE IF ~in.hasHistory THEN "Cannot read properties of undefined"
    ELSE ""

Post ==
    /\ pc = "start"
    /\ IF PreStreamError(input) # ""
       THEN /\ httpResponse' = JsonError(PreStreamError(input))
            /\ pc' = "returned"
            /\ outState' = outState
       ELSE /\ httpResponse' = StreamResponse
            /\ pc' = "for"
            /\ outState' = "readable"
    /\ UNCHANGED <<idx, usedModel, response, lastError, errorLog, buffer,
                   capturedMetadata, out, closeCalls, requests, body, pos,
                   decoded, reads, input, pageVars>>

(***************************************************************************)
(* route.ts:55-129  the Request Dispatcher.                                *)
(***************************************************************************)
\* the next iteration of for (const model of models), or its end
Continue ==
    /\ idx' = idx + 1
    /\ pc' = IF idx + 1 > Len(models) THEN "check" ELSE "for"

\* route.ts:110 and 127  break
BreakMissing == Continue
LoopExit ==
    /\ idx' = idx
    /\ pc' = "check"

\* route.ts:124-128  catch (e) { lastError = e; if (last) break; }
InnerCatchBreaks(e) ==
    /\ lastError' = e
    /\ LoopExit
InnerCatch(e) ==
    /\ lastError' = e
    /\ IF IndexOf(usedModel) = Len(models) THEN LoopExit ELSE Continue

SetResult(result, status, msg) ==
    [requests EXCEPT ![Len(requests)] =
        [model |-> @.model, result |-> result, status |-> status, msg |-> msg]]

\* route.ts:55-106  one iteration up to the call of fetch
TryModel ==
    /\ pc = "for"
    /\ idx <= Len(models)
    /\ usedModel' = models[idx]
    /\ requests' = Append(requests, Request(models[idx]))
    /\ pc' = "fetch"
    /\ UNCHANGED <<httpResponse, idx, response, lastError, errorLog, buffer,
                   capturedMetadata, out, outState, closeCalls, body, pos,
                   decoded, reads, input, pageVars>>

\* route.ts:106-110  fetch resolves with response.ok
FetchOk(bodies) ==
    /\ pc = "fetch"
    /\ \E b \in bodies : body' = b
    /\ pos' = 0
    /\ response' = [defined |-> TRUE, ok |-> TRUE, status |-> 200]
    /\ lastError' = NullError
    /\ LoopExit
    /\ requests' = SetResult("ok", 200, "")
    /\ UNCHANGED <<httpResponse, usedModel, errorLog, buffer,
                   capturedMetadata, out, outState, closeCalls, decoded, reads, input, pageVars>>

\* route.ts:112  await response.text(): the loop waits for the failure body
AwaitTextSkipped == pc' = "for"
AwaitText == pc' = "text"

\* route.ts:106-112  fetch resolves with a failure status
FetchStatus(statuses, maxFail) ==
    /\ pc = "fetch"
    /\ idx <= maxFail
    /\ \E s \in statuses :
         response' = [defined |-> TRUE, ok |-> FALSE, status |-> s]
    /\ AwaitText
    /\ UNCHANGED <<httpResponse, idx, usedModel, lastError, errorLog, buffer,
                   capturedMetadata, out, outState, closeCalls, requests,
                   body, pos, decoded, reads, input, pageVars>>

\* route.ts:106 and 124-128  fetch rejects
FetchThrows(msgs, maxFail) ==
    /\ pc = "fetch"
    /\ idx <= maxFail
    /\ \E m \in msgs :
         /\ InnerCatch(NetError(m))
         /\ requests' = SetResult("neterr", 0, m)
    /\ UNCHANGED <<httpResponse, usedModel, response, errorLog, buffer,
                   capturedMetadata, out, outState, closeCalls, body, pos,
                   decoded, reads, input, pageVars>>

\* route.ts:112-123  the failure body is read
TextOk(texts) ==
    /\ pc = "text"
    /\ \E errorText \in texts :
         LET log == Append(errorLog,
                           CurrentError(models[idx], response.status, errorText))
         IN /\ errorLog' = log
            /\ IF Retryable(response.status)
               THEN lastError' = AllFailedError(log) /\ Continue
               ELSE InnerCatch(AllFailedError(log))
    /\ requests' = SetResult("status", response.status, "")
    /\ UNCHANGED <<httpResponse, usedModel, response, buffer,
                   capturedMetadata, out, outState, closeCalls, body, pos,
                   decoded, reads, input, pageVars>>

\* route.ts:112 and 124-128  response.text() rejects
TextThrows(msgs) ==
    /\ pc = "text"
    /\ \E m \in msgs :
         /\ InnerCatch(NetError(m))
         /\ requests' = SetResult("bodyerr", response.status, m)
    /\ UNCHANGED <<httpResponse, usedModel, response, errorLog, buffer,
                   capturedMetadata, out, outState, closeCalls, body, pos,
                   decoded, reads, input, pageVars>>

(***************************************************************************)
(* route.ts:200-204  catch (error) of start(): enqueue the inline marker   *)
(* and close.  o, st, cc: output, stream state and close calls at the      *)
(* throw.  On a stream that is not readable the enqueue of line 202 throws *)
(* and start() rejects.                                                    *)
(***************************************************************************)
OuterCatchSilent(o, st, cc, msg) ==
    /\ out' = o
    /\ outState' = "closed"
    /\ closeCalls' = cc + 1
    /\ pc' = "done"
OuterCatchNoClose(o, st, cc, msg) ==
    /\ out' = Append(o, InternalChunk(msg))
    /\ outState' = st
    /\ closeCalls' = cc
    /\ pc' = "done"
OuterCatch(o, st, cc, msg) ==
    IF st = "readable"
    THEN /\ out' = Append(o, InternalChunk(msg))
         /\ outState' = "closed"
         /\ closeCalls' = cc + 1
         /\ pc' = "done"
    ELSE /\ out' = o
         /\ outState' = st
         /\ closeCalls' = cc
         /\ pc' = "rejected"

TypeErrorMsg == [head |-> "Invalid state: Controller is already closed", log |-> <<>>]

\* route.ts:131-141  after the loop
CheckResponse ==
    /\ pc = "check"
    /\ IF ~response.defined \/ ~response.ok
       THEN /\ IF outState = "readable"
               THEN /\ out' = Append(out, FailChunk(ErrorMessage(lastError)))
                    /\ outState' = "closed"
                    /\ closeCalls' = closeCalls + 1
                    /\ pc' = "done"
               ELSE OuterCatch(out, outState, closeCalls, TypeErrorMsg)
            /\ UNCHANGED <<buffer, capturedMetadata>>
       ELSE /\ buffer' = <<>>
            /\ capturedMetadata' = NoMeta
            /\ pc' = "read"
            /\ UNCHANGED <<out, outState, closeCalls>>
    /\ UNCHANGED <<httpResponse, idx, usedModel, response, lastError,
                   errorLog, requests, body, pos, decoded, reads, input, pageVars>>

(***************************************************************************)
(* route.ts:143-198  the Stream Transcoder.                                *)
(***************************************************************************)
\* route.ts:143-171  one iteration of for await (const chunk of response.body)
ReadChunk ==
    /\ pc = "read"
    /\ pos < Len(body)
    /\ \E k \in 1..(Len(body) - pos) :
         LET chunkStr == ToStr(SubSeq(body, pos + 1, pos + k))
             buf == buffer \o chunkStr
             r == ProcessLines(CompleteLines(buf), capturedMetadata, out,
                               outState)
         IN /\ buffer' = Remainder(buf)
            /\ capturedMetadata' = r.meta
            /\ out' = r.out
            /\ pos' = pos + k
            /\ decoded' = decoded \o chunkStr
            /\ reads' = reads + 1
    /\ UNCHANGED <<pc, httpResponse, idx, usedModel, response, lastError,
                   errorLog, outState, closeCalls, requests, body, input, pageVars>>

\* a relay that handled what is left in buffer as a last line at the end
ReadEndFlushes ==
    /\ pc = "read"
    /\ pos = Len(body)
    /\ LET r == ProcessLines(<<buffer>>, capturedMetadata, out, outState)
       IN /\ capturedMetadata' = r.meta
          /\ out' = IF FooterNeeded(r.meta)
                    THEN Append(r.out, FooterChunk(FooterText(r.meta)))
                    ELSE r.out
    /\ outState' = "closed"
    /\ closeCalls' = closeCalls + 1
    /\ pc' = "done"
    /\ UNCHANGED <<httpResponse, idx, usedModel, response, lastError,
                   errorLog, buffer, requests, body, pos, decoded, reads,
                   input, pageVars>>

\* route.ts:173-198  the body has ended: footer and close
ReadEnd ==
    /\ pc = "read"
    /\ pos = Len(body)
    /\ IF FooterNeeded(capturedMetadata)
       THEN IF outState = "readable"
            THEN /\ out' = Append(out, FooterChunk(FooterText(capturedMetadata)))
                 /\ outState' = "closed"
                 /\ closeCalls' = closeCalls + 1
                 /\ pc' = "done"
            ELSE OuterCatch(out, outState, closeCalls, TypeErrorMsg)
       ELSE IF outState = "readable"
            THEN /\ out' = out
                 /\ outState' = "closed"
                 /\ closeCalls' = closeCalls + 1
                 /\ pc' = "done"
            ELSE OuterCatch(out, outState, closeCalls + 1, TypeErrorMsg)
    /\ UNCHANGED <<httpResponse, idx, usedModel, response, lastError,
                   errorLog, buffer, capturedMetadata, requests, body, pos,
                   decoded, reads, input, pageVars>>

\* route.ts:143 and 200-204  reading response.body throws
ReadThrows(msgs) ==
    /\ pc = "read"
    /\ \E m \in msgs :
         OuterCatch(out, outState, closeCalls, [head |-> m, log |-> <<>>])
    /\ UNCHANGED <<httpResponse, idx, usedModel, response, lastError,
                   errorLog, buffer, capturedMetadata, requests, body, pos,
                   decoded, reads, input, pageVars>>

(***************************************************************************)
(* route.ts:45-46  the caller goes away and the platform cancels the       *)
(* stream.  The underlying source has a start method only, no cancel       *)
(* method: nothing of start() is told; from now on controller.enqueue and  *)
(* controller.close throw.                                                 *)
(***************************************************************************)
Cancel ==
    /\ outState = "readable"
    /\ outState' = "cancelled"
    /\ UNCHANGED <<pc, httpResponse, idx, usedModel, response, lastError,
                   errorLog, buffer, capturedMetadata, out, closeCalls,
                   requests, body, pos, decoded, reads, input, pageVars>>

(***************************************************************************)
(* Specifications.  Spec: every outcome for every candidate, short bodies. *)
(* SpecStream: long bodies, failures only among the first MaxFailS         *)
(* candidates.                                                             *)
(***************************************************************************)
Next ==
    \/ Post
    \/ TryModel
    \/ FetchOk(SmallBodies)
    \/ FetchStatus(Statuses, Len(models))
    \/ FetchThrows(NetMsgs, Len(models))
    \/ TextOk(ErrTexts)
    \/ TextThrows({"ECONNRESET"})
    \/ CheckResponse
    \/ ReadChunk
    \/ ReadEnd
    \/ ReadThrows(NetMsgs)

Spec == Init /\ [][Next]_vars

NextStream ==
    \/ Post
    \/ TryModel
    \/ FetchOk(Bodies)
    \/ FetchStatus({503}, MaxFailS)
    \/ FetchThrows({"ECONNRESET"}, MaxFailS)
    \/ TextOk(ErrTexts)
    \/ TextThrows({"ECONNRESET"})
    \/ CheckResponse
    \/ ReadChunk
    \/ ReadEnd
    \/ ReadThrows({"ECONNRESET"})

SpecStream == Init /\ [][NextStream]_vars

\* SpecCancel: short bodies, and the caller may go away at any moment
NextCancel ==
    \/ Post
    \/ TryModel
    \/ FetchOk(SmallBodies)
    \/ FetchStatus({503}, Len(models))
    \/ FetchThrows({"ECONNRESET"}, Len(models))
    \/ TextOk(ErrTexts)
    \/ TextThrows({"ECONNRESET"})
    \/ CheckResponse
    \/ ReadChunk
    \/ ReadEnd
    \/ ReadThrows({"ECONNRESET"})
    \/ Cancel

SpecCancel == Init /\ [][NextCancel]_vars

(***************************************************************************)
(* Properties of the Request Dispatcher.                                   *)
(***************************************************************************)
Last(s) == s[Len(s)]
IsStatusFailure(r) == r.result = "status"
IsTransportFailure(r) == r.result \in {"neterr", "bodyerr"}
DispatchFailed == pc = "done" /\ out # <<>> /\ out[1].kind = "fail"

\* C1: a candidate that returned a non-retryable status (a failure status
\* other than 429, 404, 503) is the last candidate attempted.
C1_NonRetryableStops ==
    \A i \in 1..Len(requests) :
        (IsStatusFailure(requests[i]) /\ ~Retryable(requests[i].status))
            => i = Len(requests)

\* C2: as long as every candidate answered with a retryable status, the
\* requests issued are the candidates in list order, each once; when the
\* relay has finished all candidates were attempted and the failure
\* message names the model and the status of every attempt, in order.
C2_AllRetryableAllTried ==
    (\A i \in 1..Len(requests) :
        \/ requests[i].result = "pending"
        \/ (IsStatusFailure(requests[i]) /\ Retryable(requests[i].status)))
    => /\ Len(requests) <= Len(models)
       /\ \A i \in 1..Len(requests) : requests[i].model = models[i]
       /\ pc = "done" =>
            /\ Len(requests) = Len(models)
            /\ Len(out) = 1
            /\ out[1].kind = "fail"
            /\ Len(out[1].msg.log) = Len(models)
            /\ \A i \in 1..Len(models) :
                 /\ out[1].msg.log[i].model = models[i]
                 /\ out[1].msg.log[i].status = requests[i].status

C2_Witness ==
    /\ pc = "done"
    /\ Len(requests) = Len(models)
    /\ \A i \in 1..Len(requests) :
         IsStatusFailure(requests[i]) /\ Retryable(requests[i].status)
    /\ requests[1].status = 429
    /\ requests[2].status = 404
    /\ requests[3].status = 503

\* C3: a candidate that answered with success is the last one attempted.
C3_SuccessStops ==
    \A i \in 1..Len(requests) :
        requests[i].result = "ok" => i = Len(requests)

C3_Witness ==
    /\ pc = "done"
    /\ Len(requests) = 1
    /\ requests[1].result = "ok"

\* C4: when the relay fails for want of a usable stream, the failure
\* message holds an entry for every attempt made, status failures and
\* transport failures alike, with the attempt's model and status.
C4_FailureAggregatesAll ==
    DispatchFailed =>
        \A i \in 1..Len(requests) :
            \E j \in 1..Len(out[1].msg.log) :
                /\ out[1].msg.log[j].model = requests[i].model
                /\ IsStatusFailure(requests[i]) =>
                       out[1].msg.log[j].status = requests[i].status

\* C5: after a transport failure of a candidate that is not the last one,
\* the error is recorded in lastError and the next candidate is attempted;
\* after a transport failure of the last candidate the loop stops and the
\* invocation fails with that error.
C5_TransportFailureContinues ==
    \A i \in 1..Len(requests) :
        IsTransportFailure(requests[i]) =>
            IF i < Len(models)
            THEN \/ Len(requests) > i
                 \/ /\ pc = "for"
                    /\ idx = i + 1
                    /\ lastError = NetError(requests[i].msg)
            ELSE /\ pc \in {"check", "done"}
                 /\ pc = "check" =>
                        /\ lastError = NetError(requests[i].msg)
                        /\ ~(response.defined /\ response.ok)
                 /\ pc = "done" =>
                        out = <<FailChunk(ErrorMessage(NetError(requests[i].msg)))>>

C5_Witness ==
    /\ pc = "done"
    /\ Len(requests) = Len(models)
    /\ requests[1].result = "neterr"
    /\ requests[2].result = "bodyerr"
    /\ Last(requests).result = "neterr"

(***************************************************************************)
(* Properties of the Stream Transcoder.                                    *)
(***************************************************************************)
IsText(c) == c.kind = "text"
IsFooter(c) == c.kind = "footer"
TextItems(o) == SelectSeq(o, IsText)
FooterItems(o) == SelectSeq(o, IsFooter)

\* the characters of the text chunks of an output, concatenated
RECURSIVE ConcatText(_)
ConcatText(o) ==
    IF o = <<>> THEN <<>>
    ELSE (IF Head(o).kind = "text" THEN Head(o).chars ELSE <<>>)
         \o ConcatText(Tail(o))

\* the relay got a stream and read it to its end without an error
NormalEnd ==
    /\ pc = "done"
    /\ requests # <<>>
    /\ Last(requests).result = "ok"
    /\ \A i \in 1..Len(out) : out[i].kind # "internal"

\* the result of handing the whole body to the transcoder as one chunk
SingleChunk(b) ==
    ProcessLines(CompleteLines(ToStr(b)), NoMeta, <<>>, "readable")

\* the record of a line the transcoder received: what a 'data: ' line
\* other than the sentinel parses to
RecordOf(line) ==
    LET t == Trim(line) IN
    IF Len(t) >= 2 /\ t[1] = "data" /\ Tail(t) # <<"done">>
    THEN JsonParse(Tail(t))
    ELSE ParseFailed

IsDataLine(line) ==
    LET t == Trim(line) IN Len(t) >= 2 /\ t[1] = "data" /\ Tail(t) # <<"done">>
IsMalformed(line) == IsDataLine(line) /\ ~RecordOf(line).ok
HasText(line) == RecordOf(line).ok /\ RecordOf(line).text # <<>>
HasMeta(line) == RecordOf(line).ok /\ RecordOf(line).meta # "none"

\* the newline-terminated lines received so far
Received == CompleteLines(decoded)

RECURSIVE TextsOf(_)
TextsOf(lines) ==
    IF lines = <<>> THEN <<>>
    ELSE (IF HasText(Head(lines))
          THEN <<TextChunk(RecordOf(Head(lines)).text)>>
          ELSE <<>>) \o TextsOf(Tail(lines))

\* C6: at the normal end of a stream delivered in any chunks, the text
\* emitted and the metadata captured are those of the delivery of the same
\* body as a single chunk.
C6_ChunkingPreservesOutput ==
    NormalEnd =>
        /\ ConcatText(out) = ConcatText(SingleChunk(body).out)
        /\ capturedMetadata = SingleChunk(body).meta

\* C7: on every exit of start() the output stream is closed by exactly one
\* controller.close() call; before the exit it is open and no close was
\* called; no enqueue or close is called on the closed stream (such a call
\* throws and start() rejects).
C7_ClosedExactlyOnce ==
    /\ pc # "rejected"
    /\ pc = "done" => (outState = "closed" /\ closeCalls = 1)
    /\ pc \in {"for", "fetch", "text", "check", "read"} =>
           (outState = "readable" /\ closeCalls = 0)
    /\ outState = "closed" => pc = "done"

C7_Witness ==
    /\ pc = "done"
    /\ Len(out) = 2
    /\ out[1].kind = "text"
    /\ out[2].kind = "internal"
    /\ closeCalls = 1

\* C8: at the normal end of a stream in which records carried grounding
\* metadata, the captured metadata is that of the last such record and the
\* footer is the footer of that record alone.
C8_LastMetadataWins ==
    LET metaLines == SelectSeq(Received, HasMeta) IN
    (NormalEnd /\ metaLines # <<>>) =>
        LET last == MetaOf(RecordOf(Last(metaLines)).meta) IN
        /\ capturedMetadata = last
        /\ FooterItems(out) =
             IF FooterNeeded(last) THEN <<FooterChunk(FooterText(last))>>
             ELSE <<>>

C8_Witness ==
    LET metaLines == SelectSeq(Received, HasMeta) IN
    /\ NormalEnd
    /\ Len(metaLines) = 2
    /\ RecordOf(metaLines[1]).meta = "gB"
    /\ RecordOf(metaLines[2]).meta = "gA"
    /\ FooterItems(out) = <<FooterChunk(FooterText(MetaOf("gA")))>>

\* C9: at the normal end of a stream none of whose records carried
\* grounding metadata, the output holds text chunks only.
C9_NoMetadataNoFooter ==
    (NormalEnd /\ SelectSeq(Received, HasMeta) = <<>>) =>
        \A i \in 1..Len(out) : out[i].kind = "text"

C9_Witness ==
    /\ NormalEnd
    /\ SelectSeq(Received, HasMeta) = <<>>
    /\ Len(out) = 2

\* C10: a malformed payload line contributes nothing and stops nothing:
\* after every read, and at the normal end, the text chunks of the output
\* are exactly the text deltas of the well-formed lines received, in order,
\* and while reading the output holds nothing else.
C10_MalformedLineDropped ==
    /\ pc = "read" => out = TextsOf(Received)
    /\ NormalEnd => TextItems(out) = TextsOf(Received)

C10_Witness ==
    /\ NormalEnd
    /\ Len(Received) = 2
    /\ IsMalformed(Received[1])
    /\ HasText(Received[2])
    /\ TextItems(out) = <<TextChunk(RecordOf(Received[2]).text)>>

\* the text deltas used in the end-to-end scenario, as bytes
ScenarioTexts == {<<"a">>, <<"lead", "cont">>}

\* C11: the first candidate succeeds and its body, one 'data: ' line whose
\* payload carries the text T and no grounding metadata, arrives as a single
\* chunk and the body then ends: the output is the one text chunk T,
\* nothing else.
C11_SingleChunkScenario ==
    \A T \in ScenarioTexts :
        (/\ NormalEnd
         /\ Len(requests) = 1
         /\ body = TextLine(T)
         /\ reads = 1
         /\ pos = Len(body))
        => out = <<TextChunk(IF T = <<"a">> THEN <<"a">> ELSE <<"E2">>)>>

C11_Witness ==
    /\ NormalEnd
    /\ Len(requests) = 1
    /\ body = TextLine(<<"lead", "cont">>)
    /\ reads = 1
    /\ pos = Len(body)
    /\ out = <<TextChunk(<<"E2">>)>>
    /\ outState = "closed"

\* C12: when the dispatcher ends without a usable stream, the output is
\* exactly one chunk, the failure marker followed by a non-empty message,
\* and the stream is closed.
C12_FailureIsOneErrorLine ==
    (pc = "done" /\ Last(requests).result # "ok") =>
        /\ Len(out) = 1
        /\ out[1].kind = "fail"
        /\ (out[1].msg.head # "" \/ out[1].msg.log # <<>>)
        /\ outState = "closed"

C12_Witness ==
    /\ pc = "done"
    /\ Len(requests) = Len(models)
    /\ \A i \in 1..Len(requests) :
         requests[i].result = "neterr" /\ requests[i].msg = ""
    /\ out = <<FailChunk([head |-> "All models failed.", log |-> <<>>])>>

\* C13: when reading the body throws before the body has ended, the output
\* is the text emitted so far followed by exactly one inline error marker;
\* no footer follows, also when metadata was captured, and the stream is
\* closed.
C13_MidStreamError ==
    (pc = "done" /\ Last(requests).result = "ok" /\ pos < Len(body)) =>
        /\ out # <<>>
        /\ Last(out).kind = "internal"
        /\ SubSeq(out, 1, Len(out) - 1) = TextsOf(Received)
        /\ outState = "closed"

C13_Witness ==
    /\ pc = "done"
    /\ Last(requests).result = "ok"
    /\ pos < Len(body)
    /\ Len(out) = 2
    /\ out[1].kind = "text"
    /\ out[2] = InternalChunk([head |-> "ECONNRESET", log |-> <<>>])
    /\ FooterNeeded(capturedMetadata)

(***************************************************************************)
(* Properties of POST before the stream.                                   *)
(***************************************************************************)
\* C14: without GEMINI_API_KEY, POST answers with a JSON error of status
\* 500; no stream is created, nothing is enqueued and no upstream request
\* is issued.
C14_MissingKeyIsPreStreamError ==
    (pc # "start" /\ ~input.hasKey) =>
        /\ pc = "returned"
        /\ httpResponse.kind = "json"
        /\ httpResponse.status = 500
        /\ outState = "none"
        /\ out = <<>>
        /\ requests = <<>>

C14_Witness ==
    /\ pc = "returned"
    /\ input = [validJson |-> TRUE, hasKey |-> FALSE, hasHistory |-> TRUE]
    /\ httpResponse =
         JsonError("GEMINI_API_KEY is not defined in environment variables")
    /\ requests = <<>>

\* C15 (as stated): POST answers with a JSON error only when the key is
\* missing; every request with the key present gets the stream.
C15_JsonErrorOnlyForMissingKey ==
    pc # "start" =>
        /\ httpResponse.kind = "json" => ~input.hasKey
        /\ input.hasKey => httpResponse.kind = "stream"

\* C15 (amended): POST answers with a JSON error of status 500 exactly when
\* a step before the stream fails (the body is not valid JSON, the key is
\* missing, or the history is missing); every other request gets the
\* stream.
C15_JsonErrorForPreStreamFailures ==
    pc # "start" =>
        IF input.validJson /\ input.hasKey /\ input.hasHistory
        THEN httpResponse = StreamResponse /\ outState # "none"
        ELSE /\ httpResponse.kind = "json"
             /\ httpResponse.status = 500
             /\ outState = "none"

C15_Witness ==
    /\ pc = "returned"
    /\ input = [validJson |-> TRUE, hasKey |-> TRUE, hasHistory |-> FALSE]
    /\ httpResponse.kind = "json"
    /\ httpResponse.status = 500

(***************************************************************************)
(* Properties of the relay as a pipeline.                                  *)
(***************************************************************************)
\* an upstream connection is open from the call of fetch until the failure
\* body is read or a transport error is raised; the winning connection is
\* open while its body is read
OpenConnections ==
    {i \in 1..Len(requests) :
        \/ requests[i].result = "pending"
        \/ (requests[i].result = "ok" /\ pc \in {"check", "read"})}

\* C16: at most one upstream connection is open, and when a request has
\* been issued every earlier attempt has finished in a failure (body read,
\* or transport error raised).
C16_AttemptsSequential ==
    /\ Cardinality(OpenConnections) <= 1
    /\ \A i \in 1..(Len(requests) - 1) :
         requests[i].result \in {"status", "neterr", "bodyerr"}

C16_Witness ==
    /\ pc = "text"
    /\ Len(requests) = 3
    /\ requests[1].result = "status"
    /\ requests[2].result = "bodyerr"
    /\ requests[3].result = "pending"
    /\ OpenConnections = {3}

\* C17: every read enqueues, in the same step, the text deltas of the lines
\* the read completes: they are on the output before the next chunk is
\* read.
C17_EmitsPerChunk ==
    [][(pc = "read" /\ reads' = reads + 1) =>
         out' = out \o TextsOf(CompleteLines(
                   buffer \o SubSeq(decoded', Len(decoded) + 1, Len(decoded'))))
      ]_vars

C17_Witness ==
    /\ pc = "read"
    /\ reads = 1
    /\ pos < Len(body)
    /\ Len(out) = 1
    /\ out[1].kind = "text"

\* C18: once the caller has gone the relay reads no further chunk, issues
\* no further upstream request, and start() does not end in a throw.
C18_ReleasedOnCancel ==
    [][outState = "cancelled" =>
         (pos' = pos /\ requests' = requests /\ pc' # "rejected")]_vars

\* the position of the last newline of s (0 if there is none), the lines
\* before it, and what follows it
LastNewline(s) ==
    IF \A i \in 1..Len(s) : s[i] # "nl" THEN 0
    ELSE CHOOSE i \in 1..Len(s) :
             s[i] = "nl" /\ \A j \in (i + 1)..Len(s) : s[j] # "nl"
TerminatedLines(s) ==
    IF LastNewline(s) = 0 THEN <<>> ELSE Split(SubSeq(s, 1, LastNewline(s) - 1))
HeldBack(s) == SubSeq(s, LastNewline(s) + 1, Len(s))

\* the metadata of the last metadata-bearing line of a sequence of lines
MetaAfter(lines) ==
    LET metaLines == SelectSeq(lines, HasMeta) IN
    IF metaLines = <<>> THEN NoMeta
    ELSE MetaOf(RecordOf(Last(metaLines)).meta)

\* C19: after every read the buffer is exactly what was received after the
\* last newline; the text emitted and the metadata captured are those of
\* the newline-terminated lines alone.
C19_IncompleteLineHeld ==
    pc = "read" =>
        /\ buffer = HeldBack(decoded)
        /\ ConcatText(out) = ConcatText(TextsOf(TerminatedLines(decoded)))
        /\ Len(out) = Len(TextsOf(TerminatedLines(decoded)))
        /\ capturedMetadata = MetaAfter(TerminatedLines(decoded))

C19_Witness ==
    /\ pc = "read"
    /\ reads = 2
    /\ pos = Len(body)
    /\ buffer = <<"data", "{T", "b", "T}">>
    /\ HasText(buffer)
    /\ out = <<>>
    /\ capturedMetadata = MetaOf("gA")

\* C20 (as stated): at the normal end, whenever metadata was captured the
\* output ends with a footer.
C20_FooterWheneverCaptured ==
    (NormalEnd /\ ~capturedMetadata.isNull) =>
        (out # <<>> /\ Last(out).kind = "footer")

\* C20 (amended): at the normal end, captured metadata with at least one
\* query or at least one grounding chunk puts exactly one footer, that of
\* the captured metadata, at the end of the output before the close;
\* captured metadata with neither puts no footer.
C20_FooterWhenNonEmpty ==
    (NormalEnd /\ ~capturedMetadata.isNull) =>
        IF \/ Len(capturedMetadata.webSearchQueries) > 0
           \/ Len(capturedMetadata.groundingChunks) > 0
        THEN /\ out # <<>>
             /\ Last(out) = FooterChunk(FooterText(capturedMetadata))
             /\ Len(FooterItems(out)) = 1
             /\ outState = "closed"
        ELSE FooterItems(out) = <<>>

C20_Witness ==
    /\ NormalEnd
    /\ capturedMetadata = MetaOf("gB")
    /\ Len(out) = 2
    /\ out[1].kind = "text"
    /\ out[2].kind = "footer"
    /\ out[2].footer.queriesBlock = FALSE

\* C21: every footer of a normally ended stream has the queries block
\* exactly when at least one query was recorded, one bullet per query, and
\* one reference per captured grounding chunk, in captured order, numbered
\* 1, 2, 3, ... without a gap.
C21_ReferencesNumberedFromOne ==
    NormalEnd =>
        \A i \in 1..Len(out) :
            out[i].kind = "footer" =>
                LET f == out[i].footer IN
                /\ f.queriesBlock = (Len(capturedMetadata.webSearchQueries) > 0)
                /\ f.bullets = capturedMetadata.webSearchQueries
                /\ Len(f.refs) = Len(capturedMetadata.groundingChunks)
                /\ \A k \in 1..Len(f.refs) : f.refs[k].n = k

\* the output of a relay that received the lines given and nothing else:
\* their text deltas, then the footer of their last metadata
OutputOf(lines) ==
    TextsOf(lines) \o
    (IF FooterNeeded(MetaAfter(lines))
     THEN <<FooterChunk(FooterText(MetaAfter(lines)))>>
     ELSE <<>>)

\* C22: when the stream ends normally while a non-empty unterminated line
\* is held in the buffer, the line is still in the buffer, and the output
\* and the captured metadata are those of the terminated lines alone: the
\* held line's text is not emitted and its metadata is not captured.
C22_UnterminatedLineDiscarded ==
    (NormalEnd /\ HeldBack(decoded) # <<>>) =>
        /\ buffer = HeldBack(decoded)
        /\ out = OutputOf(TerminatedLines(decoded))
        /\ capturedMetadata = MetaAfter(TerminatedLines(decoded))
        /\ outState = "closed"

C22_Witness ==
    /\ NormalEnd
    /\ buffer = <<"data", "{T", "b", "T}">>
    /\ HasText(buffer)
    /\ body = TextLine(<<"a">>) \o <<"data", "gA", "nl">> \o buffer
    /\ out = <<TextChunk(<<"a">>), FooterChunk(FooterText(MetaOf("gA")))>>

(***************************************************************************)
(* The chat page: src/app/page.tsx (Home) and the input box of             *)
(* src/components/ChatInterface.tsx.  Texts are sequences of tokens.  A    *)
(* handler that awaits is cut at its awaits: each action is the code that  *)
(* runs between two of them, and React renders between two actions, so an  *)
(* event handler reads the state of the latest render while the            *)
(* continuation of an await keeps the values its call captured.            *)
(* sidebarOpen (page.tsx:10) and createdAt (page.tsx:75) are written and   *)
(* never read by a handler; they are left out.                             *)
(***************************************************************************)
MaxRequests == 1     \* requests answered before the user stops asking
MaxReads == 2        \* chunks of one response body read by the page

\* types/chat.ts  ChatMessage, ChatSession
Message(role, text) == [role |-> role, text |-> text]
Session(id, title, msgs) == [id |-> id, title |-> title, messages |-> msgs]

\* what the user may type into the input box
TypedTexts == { <<>>, <<"sp">>, <<"a">> }

\* page.tsx:73  text.slice(0, 30) + (text.length > 30 ? '...' : '')
Title(text) ==
    IF Len(text) > 30 THEN SubSeq(text, 1, 30) \o <<"...">> ELSE text

\* the histories a previous visit may have left in localStorage
SavedHistories ==
    { <<>>,
      <<Session(1, <<"b">>,
                <<Message("user", <<"b">>), Message("model", <<"a">>)>>)>> }

\* page.tsx:16-33  the state after mount: history is the saved history,
\* which the save effect writes back
InitPage ==
    /\ pc = "start"
    /\ httpResponse = NoHttpResponse
    /\ idx = 1
    /\ usedModel = ""
    /\ response = NoResponse
    /\ lastError = NullError
    /\ errorLog = <<>>
    /\ buffer = <<>>
    /\ capturedMetadata = NoMeta
    /\ out = <<>>
    /\ outState = "none"
    /\ closeCalls = 0
    /\ requests = <<>>
    /\ body = <<>>
    /\ pos = 0
    /\ decoded = <<>>
    /\ reads = 0
    /\ input = [validJson |-> TRUE, hasKey |-> TRUE, hasHistory |-> TRUE]
    /\ history \in SavedHistories
    /\ currentChatId = Null
    /\ messages = <<>>
    /\ isLoading = FALSE
    /\ chatInput = <<>>
    /\ localStorage = history
    /\ calls = {}
    /\ uuids = Len(history)
    /\ answered = 0
    /\ deleted = {}

\* history.find(s => s.id === id) / findIndex: the first position of a
\* session with this id, 0 if there is none
FindIndex(h, id) ==
    IF \A i \in 1..Len(h) : h[i].id # id THEN 0
    ELSE CHOOSE i \in 1..Len(h) :
             h[i].id = id /\ \A j \in 1..(i - 1) : h[j].id # id

\* newHistory[index] = { ...newHistory[index], messages: newMessages }
SetAt(h, index, msgs) ==
    IF index = 0 THEN h ELSE [h EXCEPT ![index].messages = msgs]

\* newHistory.map(session => session.id === chatId
\*                           ? { ...session, messages } : session)
RECURSIVE MapMessages(_, _, _)
MapMessages(h, chatId, msgs) ==
    IF h = <<>> THEN <<>>
    ELSE <<IF Head(h).id = chatId THEN [Head(h) EXCEPT !.messages = msgs]
           ELSE Head(h)>> \o MapMessages(Tail(h), chatId, msgs)

\* history.filter(s => s.id !== id)
RECURSIVE Without(_, _)
Without(h, id) ==
    IF h = <<>> THEN <<>>
    ELSE (IF Head(h).id # id THEN <<Head(h)>> ELSE <<>>)
         \o Without(Tail(h), id)

\* ChatInterface.tsx:147  onChange={(e) => setInput(e.target.value)}; the
\* input is disabled while isLoading (149)
setInput(text) ==
    /\ ~isLoading
    /\ chatInput' = text
    /\ UNCHANGED <<history, currentChatId, messages, isLoading, localStorage,
                   calls, uuids, answered, deleted, relayVars>>

\* page.tsx:35-38
createNewChat ==
    /\ currentChatId' = Null
    /\ messages' = <<>>
    /\ UNCHANGED <<history, isLoading, chatInput, localStorage, calls, uuids,
                   answered, deleted, relayVars>>

\* page.tsx:40-46  the sidebar offers the sessions of history
selectChat(id) ==
    IF FindIndex(history, id) # 0
    THEN /\ currentChatId' = history[FindIndex(history, id)].id
         /\ messages' = history[FindIndex(history, id)].messages
         /\ UNCHANGED <<history, isLoading, chatInput, localStorage, calls,
                        uuids, answered, deleted, relayVars>>
    ELSE UNCHANGED vars

\* page.tsx:48-57, and the save effect of 31-33 on the new history
deleteChat(id) ==
    /\ history' = Without(history, id)
    /\ localStorage' = history'
    /\ IF currentChatId = id
       THEN /\ currentChatId' = Null
            /\ messages' = <<>>
       ELSE UNCHANGED <<currentChatId, messages>>
    /\ deleted' = deleted \cup {id}
    /\ UNCHANGED <<isLoading, chatInput, calls, uuids, answered, relayVars>>

(***************************************************************************)
(* The responses of fetch('/api/chat').  status and statusText are tokens  *)
(* of the error messages built from them.                                  *)
(***************************************************************************)
\* json: what response.json() gives: "throws" (not JSON), or the value of
\* the error field of the parsed object (<<>> when it has none)
PageResponse(ok, status, statusText, hasBody, json, error) ==
    [ok |-> ok, status |-> status, statusText |-> statusText,
     hasBody |-> hasBody, json |-> json, error |-> error]

OkResponses ==
    { PageResponse(TRUE, "200", "OK", TRUE, "throws", <<>>),
      PageResponse(TRUE, "200", "OK", FALSE, "throws", <<>>) }
FailedResponses ==
    { PageResponse(FALSE, "500", "Internal Server Error", TRUE, "object",
                   <<"API Key is missing">>),
      PageResponse(FALSE, "404", "Not Found", TRUE, "object", <<>>),
      PageResponse(FALSE, "429", "Too Many Requests", TRUE, "throws", <<>>) }
NoPageResponse == PageResponse(FALSE, "", "", FALSE, "throws", <<>>)

\* the chunks a response body may be delivered in
PageChunks == { <<"lead">>, <<"cont">> }
\* the messages of the errors fetch and reader.read() may throw
PageNetMsgs == { <<"Failed to fetch">> }

\* page.tsx:101, 103, 108  the messages of the errors the handlers throw
HttpError(r) == <<"HTTP Error", r.status, r.statusText>>
RequestFailed(r) == <<"Request failed with status", r.status>>
NoReader == <<"No reader available">>

\* String.prototype.includes on the tokens of a message
Includes(msg, needle) == \E i \in 1..Len(msg) : msg[i] = needle

\* page.tsx:144-161  the error message shown for an error
ErrorTitle(msg) ==
    IF \/ Includes(msg, "429")
       \/ Includes(msg, "Too Many Requests")
       \/ Includes(msg, "RESOURCE_EXHAUSTED")
    THEN "Rate Limit Exceeded"
    ELSE IF Includes(msg, "404") THEN "Model Not Found" ELSE "Error"
ErrorDetail(msg) ==
    IF ErrorTitle(msg) = "Rate Limit Exceeded"
    THEN <<"You have exceeded the free tier rate limit">>
    ELSE IF ErrorTitle(msg) = "Model Not Found"
         THEN <<"The requested AI model is not available">>
         ELSE msg
ErrorMessageObj(msg) ==
    Message("model",
            <<"error", ErrorTitle(msg)>> \o ErrorDetail(msg)
            \o <<"Troubleshooting">>)

\* page.tsx:107, 119  new TextDecoder(), decoder.decode(value, { stream:
\* true }): a lead byte at the end of a chunk is kept (pending) for the
\* next chunk; a lead byte without its continuation byte, and a
\* continuation byte without its lead byte, decode to "FFFD"
RECURSIVE Decode(_, _)
Decode(pending, bytes) ==
    IF bytes = <<>> THEN [chars |-> <<>>, pending |-> pending]
    ELSE IF pending
         THEN IF Head(bytes) = "cont"
              THEN LET d == Decode(FALSE, Tail(bytes))
                   IN [d EXCEPT !.chars = <<"E2">> \o d.chars]
              ELSE LET d == Decode(FALSE, bytes)
                   IN [d EXCEPT !.chars = <<"FFFD">> \o d.chars]
    ELSE IF Head(bytes) = "lead" THEN Decode(TRUE, Tail(bytes))
    ELSE LET d == Decode(FALSE, Tail(bytes))
         IN [d EXCEPT !.chars =
                 <<IF Head(bytes) = "cont" THEN "FFFD" ELSE Head(bytes)>>
                 \o d.chars]

\* a call of handleSendMessage or handleRegenerate that is awaiting: the
\* values it captured (chatId, newMessages, newHistory), the request it
\* sent, where it waits (at: "fetch", "json", "read"), and its locals
\* response, accumulatedResponse and decoder
Call(kind, chatId, newMessages, newHistory, message, historyForApi) ==
    [kind |-> kind, chatId |-> chatId, newMessages |-> newMessages,
     newHistory |-> newHistory,
     request |-> [message |-> message, history |-> historyForApi],
     at |-> "fetch", response |-> NoPageResponse,
     accumulatedResponse |-> <<>>, pending |-> FALSE, reads |-> 0]

(***************************************************************************)
(* page.tsx:59-93  handleSendMessage up to its await of fetch.             *)
(***************************************************************************)
handleSendMessage(text) ==
    LET userMessage == Message("user", text)
        newMessages == Append(messages, userMessage)
        chatId == IF currentChatId = Null THEN uuids + 1 ELSE currentChatId
        newHistory ==
            IF currentChatId = Null
            THEN <<Session(chatId, Title(text), newMessages)>> \o history
            ELSE SetAt(history, FindIndex(history, chatId), newMessages)
    IN /\ answered < MaxRequests
       /\ messages' = newMessages
       /\ isLoading' = TRUE
       /\ currentChatId' = chatId
       /\ uuids' = IF currentChatId = Null THEN uuids + 1 ELSE uuids
       /\ history' = newHistory
       /\ localStorage' = newHistory
       /\ calls' = calls \cup
              {Call("send", chatId, newMessages, newHistory, text, messages)}
       /\ UNCHANGED <<answered, deleted>>

\* ChatInterface.tsx:80-84
handleSend ==
    IF Trim(chatInput) = <<>> \/ isLoading
    THEN UNCHANGED vars
    ELSE /\ handleSendMessage(chatInput)
         /\ chatInput' = <<>>
         /\ UNCHANGED relayVars

(***************************************************************************)
(* page.tsx:188-218  handleRegenerate up to its await of fetch.            *)
(***************************************************************************)
\* page.tsx:189-198  the early returns
RegenerateReturns ==
    \/ isLoading
    \/ messages = <<>>
    \/ currentChatId = Null
    \/ messages[Len(messages)].role # "model"
    \/ Len(messages) = 1
    \/ messages[Len(messages) - 1].role # "user"

\* a handleRegenerate without the isLoading test of line 189
handleRegenerateUnguarded ==
    IF \/ messages = <<>>
       \/ currentChatId = Null
       \/ messages[Len(messages)].role # "model"
       \/ Len(messages) = 1
       \/ messages[Len(messages) - 1].role # "user"
    THEN UNCHANGED vars
    ELSE LET newMessages == SubSeq(messages, 1, Len(messages) - 1)
             lastUserMsg == newMessages[Len(newMessages)]
             index == FindIndex(history, currentChatId)
             newHistory == SetAt(history, index, newMessages)
             historyForApi == SubSeq(newMessages, 1, Len(newMessages) - 1)
         IN /\ answered < MaxRequests
            /\ messages' = newMessages
            /\ isLoading' = TRUE
            /\ history' = newHistory
            /\ localStorage' = newHistory
            /\ calls' = calls \cup
                   {Call("regenerate", currentChatId, newMessages,
                         newHistory, lastUserMsg.text, historyForApi)}
            /\ UNCHANGED <<currentChatId, chatInput, uuids, answered,
                           deleted, relayVars>>
\* page.tsx:188-218
handleRegenerate ==
    IF RegenerateReturns
    THEN UNCHANGED vars
    ELSE LET newMessages == SubSeq(messages, 1, Len(messages) - 1)
             lastUserMsg == newMessages[Len(newMessages)]
             index == FindIndex(history, currentChatId)
             newHistory == SetAt(history, index, newMessages)
             historyForApi == SubSeq(newMessages, 1, Len(newMessages) - 1)
         IN /\ answered < MaxRequests
            /\ messages' = newMessages
            /\ isLoading' = TRUE
            /\ history' = newHistory
            /\ localStorage' = newHistory
            /\ calls' = calls \cup
                   {Call("regenerate", currentChatId, newMessages,
                         newHistory, lastUserMsg.text, historyForApi)}
            /\ UNCHANGED <<currentChatId, chatInput, uuids, answered,
                           deleted, relayVars>>

(***************************************************************************)
(* page.tsx:88-186 and 211-305  the continuations of a call c.  The two    *)
(* handlers have the same code from the fetch on.                          *)
(***************************************************************************)
\* a catch without the finally of line 183
CatchNoFinally(c, msg) ==
    /\ messages' =
           IF Len(messages) > Len(c.newMessages)
           THEN [messages EXCEPT ![Len(messages)] = ErrorMessageObj(msg)]
           ELSE Append(messages, ErrorMessageObj(msg))
    /\ history' = MapMessages(c.newHistory, c.chatId,
                              Append(c.newMessages, ErrorMessageObj(msg)))
    /\ localStorage' = history'
    /\ calls' = calls \ {c}
    /\ answered' = answered + 1
    /\ UNCHANGED <<isLoading, currentChatId, chatInput, uuids, deleted,
                   relayVars>>
\* page.tsx:141-185  catch (error) and finally
Catch(c, msg) ==
    /\ messages' =
           IF Len(messages) > Len(c.newMessages)
           THEN [messages EXCEPT ![Len(messages)] = ErrorMessageObj(msg)]
           ELSE Append(messages, ErrorMessageObj(msg))
    /\ history' = MapMessages(c.newHistory, c.chatId,
                              Append(c.newMessages, ErrorMessageObj(msg)))
    /\ localStorage' = history'
    /\ isLoading' = FALSE
    /\ calls' = calls \ {c}
    /\ answered' = answered + 1
    /\ UNCHANGED <<currentChatId, chatInput, uuids, deleted, relayVars>>

\* page.tsx:89  fetch rejects
fetchRejects(c, msgs) ==
    /\ c.at = "fetch"
    /\ \E msg \in msgs : Catch(c, msg)

\* page.tsx:89-113  fetch resolves: a failure status goes on to
\* response.json(); a response without a body throws; otherwise the empty
\* bot message is added and the first read awaited
fetchResolves(c, responses) ==
    /\ c.at = "fetch"
    /\ \E r \in responses :
         IF ~r.ok
         THEN /\ calls' = (calls \ {c}) \cup
                      {[c EXCEPT !.at = "json", !.response = r]}
              /\ UNCHANGED <<history, currentChatId, messages, isLoading,
                             chatInput, localStorage, uuids, answered, deleted,
                             relayVars>>
         ELSE IF ~r.hasBody
         THEN Catch(c, NoReader)
         ELSE /\ messages' = Append(messages, Message("model", <<>>))
              /\ calls' = (calls \ {c}) \cup
                      {[c EXCEPT !.at = "read", !.response = r]}
              /\ UNCHANGED <<history, currentChatId, isLoading, chatInput,
                             localStorage, uuids, answered, deleted, relayVars>>

\* page.tsx:96-104  response.json() settles
jsonSettles(c) ==
    /\ c.at = "json"
    /\ Catch(c, IF c.response.json = "throws" THEN HttpError(c.response)
                ELSE IF c.response.error # <<>> THEN c.response.error
                ELSE RequestFailed(c.response))

\* page.tsx:116-129  reader.read() gives a chunk
readChunk(c, chunks) ==
    /\ c.at = "read"
    /\ c.reads < MaxReads
    /\ \E value \in chunks :
         LET d == Decode(c.pending, value)
             acc == c.accumulatedResponse \o d.chars
         IN /\ messages' =
                   IF Len(messages) > 0
                   THEN [messages EXCEPT ![Len(messages)].text = acc]
                   ELSE messages
            /\ calls' = (calls \ {c}) \cup
                    {[c EXCEPT !.accumulatedResponse = acc,
                               !.pending = d.pending,
                               !.reads = c.reads + 1]}
    /\ UNCHANGED <<history, currentChatId, isLoading, chatInput,
                   localStorage, uuids, answered, deleted, relayVars>>

\* page.tsx:116-117, 132-139, 183-185  reader.read() gives done
readDone(c) ==
    /\ c.at = "read"
    /\ history' = MapMessages(c.newHistory, c.chatId,
                      Append(c.newMessages,
                             Message("model", c.accumulatedResponse)))
    /\ localStorage' = history'
    /\ isLoading' = FALSE
    /\ calls' = calls \ {c}
    /\ answered' = answered + 1
    /\ UNCHANGED <<currentChatId, messages, chatInput, uuids, deleted,
                   relayVars>>

\* page.tsx:116  reader.read() rejects
readRejects(c, msgs) ==
    /\ c.at = "read"
    /\ \E msg \in msgs : Catch(c, msg)

(***************************************************************************)
(* The page with its user and the relay's answers as the environment.      *)
(***************************************************************************)
SetInput(texts) == \E text \in texts : setInput(text)
SelectChat == \E i \in 1..Len(history) : selectChat(history[i].id)
DeleteChat == \E i \in 1..Len(history) : deleteChat(history[i].id)
FetchRejects == \E c \in calls : fetchRejects(c, PageNetMsgs)
FetchResolves(responses) == \E c \in calls : fetchResolves(c, responses)
JsonSettles == \E c \in calls : jsonSettles(c)
ReadsChunk(chunks) == \E c \in calls : readChunk(c, chunks)
ReadsDone == \E c \in calls : readDone(c)
ReadRejects == \E c \in calls : readRejects(c, PageNetMsgs)

\* every answer, one request after the other
NextPage ==
    \/ SetInput(TypedTexts)
    \/ createNewChat
    \/ SelectChat
    \/ DeleteChat
    \/ handleSend
    \/ handleRegenerate
    \/ FetchRejects
    \/ FetchResolves(OkResponses \cup FailedResponses)
    \/ JsonSettles
    \/ ReadsChunk(PageChunks)
    \/ ReadsDone
    \/ ReadRejects

SpecPage == InitPage /\ [][NextPage]_vars

\* a pending fetch, response.json() or reader.read() settles: the response
\* arrives, and its body ends or errors after at most MaxReads chunks
Settles ==
    \/ FetchRejects
    \/ FetchResolves(OkResponses \cup FailedResponses)
    \/ JsonSettles
    \/ ReadsChunk(PageChunks)
    \/ ReadsDone
    \/ ReadRejects

\* the continuation of a settled await is run by the event loop
SpecPageFair == InitPage /\ [][NextPage]_vars /\ WF_vars(Settles)

(***************************************************************************)
(* Claims about the chat page.                                             *)
(***************************************************************************)
\* C23: whenever no request is in flight and a chat is selected, the
\* displayed messages are the messages history stores for that chat.
C23_DisplayedEqualsStored ==
    (~isLoading /\ currentChatId # Null) =>
        /\ FindIndex(history, currentChatId) # 0
        /\ messages = history[FindIndex(history, currentChatId)].messages

\* C24: no session that deleteChat has removed is in history, nor in the
\* history saved to localStorage.
C24_DeletedStaysDeleted ==
    /\ \A i \in 1..Len(history) : history[i].id \notin deleted
    /\ \A i \in 1..Len(localStorage) : localStorage[i].id \notin deleted

\* a step that starts a request: a new call awaits its fetch
StartsRequest == \E c \in calls' : c \notin calls /\ c.at = "fetch"

\* C25: at most one call is awaiting the relay at any time, isLoading is
\* true whenever one is, and from a state with isLoading true no step
\* starts a request and no step of handleSend or handleRegenerate changes
\* the state.
C25_OneRequestAtATime ==
    [][/\ isLoading => ~StartsRequest
       /\ (isLoading /\ (handleSend \/ handleRegenerate)) => UNCHANGED vars
       /\ Cardinality(calls') <= 1
       /\ calls' # {} => isLoading']_vars

\* a request is in flight while the input box holds a text to send and the
\* displayed conversation ends with a question and its answer, so only
\* the isLoading guards hold handleSend and handleRegenerate back
C25_Witness ==
    /\ isLoading
    /\ Cardinality(calls) = 1
    /\ Trim(chatInput) # <<>>
    /\ currentChatId # Null
    /\ Len(messages) >= 2
    /\ messages[Len(messages)].role = "model"
    /\ messages[Len(messages) - 1].role = "user"
    /\ answered < MaxRequests

\* the messages of the errors a call may end with
FailureMsgs ==
    PageNetMsgs \cup {NoReader}
    \cup {HttpError(r) : r \in FailedResponses}
    \cup {RequestFailed(r) : r \in FailedResponses}
    \cup {r.error : r \in FailedResponses}

\* C26: a request in flight always ends (isLoading true leads to isLoading
\* false), and the step that ends call c with an error leaves isLoading
\* false, writes exactly one message on display, the error message with
\* role model as the last one, and stores the issuing chat's conversation
\* as the messages sent followed by that one error message.
C26_LoadingEndsWithOneError ==
    /\ isLoading ~> ~isLoading
    /\ [][\A c \in calls : \A msg \in FailureMsgs :
            Catch(c, msg) =>
                /\ ~isLoading'
                /\ messages' # <<>>
                /\ messages'[Len(messages')] = ErrorMessageObj(msg)
                /\ messages'[Len(messages')].role = "model"
                /\ Len(messages') \in {Len(messages), Len(messages) + 1}
                /\ SubSeq(messages', 1, Len(messages') - 1)
                       = SubSeq(messages, 1, Len(messages') - 1)
                /\ FindIndex(history', c.chatId) # 0
                /\ history'[FindIndex(history', c.chatId)].messages
                       = Append(c.newMessages, ErrorMessageObj(msg))
                /\ c.newMessages[Len(c.newMessages)].role = "user"]_vars

\* a request whose body broke off after a chunk has ended: the partial
\* answer on display has been replaced by the error message
C26_Witness ==
    /\ ~isLoading
    /\ answered = 1
    /\ calls = {}
    /\ currentChatId # Null
    /\ Len(messages) = 2
    /\ messages[1].role = "user"
    /\ messages[2] = ErrorMessageObj(<<"Failed to fetch">>)
    /\ history[FindIndex(history, currentChatId)].messages = messages

====
